---- MODULE Spec2Model ----
(***************************************************************************)
(* Model of the izv-project scripts:                                       *)
(*   part02/analysis.py  load_data   (nested zip -> one data frame)        *)
(*   part02/analysis.py  parse_data  (type coercion and de-duplication)    *)
(*   part01/part01.py    integrate   (numeric integration)                 *)
(* Text is modelled as sequences of one-character strings, so that slicing *)
(* (csv_file_name[:2]), str.replace and numeral/date parsing are computed. *)
(***************************************************************************)
EXTENDS Integers, Sequences, FiniteSets, TLC

VARIABLES
    \* load_data
    outerOk,      \* whether zipfile.ZipFile(filename) can open the outer archive
    archive,      \* content of the outer archive: sequence of inner files
    pc,           \* position of load_data
    i,            \* index of the inner archive of the outer for-loop
    j,            \* index of the extract of the inner for-loop
    open,         \* archive handles currently open
    dataframes,   \* the list `dataframes`
    result,       \* the returned frame (sequence of rows)
    err,          \* the exception that left load_data, "" when none
    \* parse_data
    pdPc, pdIn, pdOut, pdOut2,
    \* integrate
    intPc, f, a, b, steps, intRes

loadVars == <<outerOk, archive, pc, i, j, open, dataframes, result, err>>
parseVars == <<pdPc, pdIn, pdOut, pdOut2>>
intVars == <<intPc, f, a, b, steps, intRes>>
vars == <<loadVars, parseVars, intVars>>

\* ------------------------------------------------------------------ bounds
MaxInner == 2       \* inner archives in the outer archive
MaxExtracts == 2    \* extracts in the whole outer archive
MaxFrameRows == 2   \* rows of the frame given to parse_data
MaxAbs == 2         \* integrate: the bounds a, b are integers in -MaxAbs..MaxAbs
MaxSteps == 3       \* integrate: steps is in 0..MaxSteps

\* ------------------------------------------------------------- load_data
None == "None"

\* The dictionary `regions`: key (2 characters) and region code.
regions ==
    { << <<"0","0">>, "PHA" >>, << <<"0","1">>, "STC" >>, << <<"0","2">>, "JHC" >>,
      << <<"0","3">>, "PLK" >>, << <<"0","4">>, "ULK" >>, << <<"0","5">>, "HKK" >>,
      << <<"0","6">>, "JHM" >>, << <<"0","7">>, "MSK" >>, << <<"1","4">>, "OLK" >>,
      << <<"1","5">>, "ZLK" >>, << <<"1","6">>, "VYS" >>, << <<"1","7">>, "PAK" >>,
      << <<"1","8">>, "LBK" >>, << <<"1","9">>, "KVK" >> }

regionKeys == { e[1] : e \in regions }

\* s[:n] of Python
Prefix(s, n) == SubSeq(s, 1, IF Len(s) < n THEN Len(s) ELSE n)

\* regions.get(key): the code, or None
regions_get_any(key) == "PHA"
regions_get(key) ==
    IF key \in regionKeys THEN (CHOOSE e \in regions : e[1] = key)[2] ELSE None

\* region = regions.get(csv_file_name[:2])
RegionOf(csv_file_name) == regions_get(Prefix(csv_file_name, 2))

\* Names of extracts used as inputs: two with prefix 00, one with prefix 14,
\* one with prefix 08 (no key of the table).
Names ==
    { <<"0","0","a">>, <<"0","0","b">>, <<"1","4","a">>, <<"0","8","a">> }

\* Numbers of rows an extract may hold.
RowCounts == {0, 2}

\* An extract: its name, its number of rows, and whether reading it
\* (zf.read / pd.read_csv) raises.
ExtractSet ==
    { e \in [name : Names, nrows : RowCounts, corrupt : BOOLEAN] :
        e.corrupt => e.nrows = 0 }

\* A member of the outer archive that zipfile.ZipFile cannot open.
BadInner == [ok |-> FALSE, files |-> <<>>]

\* The shape of an outer archive: per member, the number of extracts it
\* holds, or -1 for a member that is no zip file.
Shapes == UNION { [1..k -> -1..MaxExtracts] : k \in 0..MaxInner }

RECURSIVE Count(_, _)
\* number of extracts of the first n members of a shape
Count(shape, n) ==
    IF n = 0 THEN 0
    ELSE Count(shape, n - 1) + (IF shape[n] < 0 THEN 0 ELSE shape[n])

\* The outer archive of shape `shape` whose extracts, in order, are `flat`.
Build(shape, flat) ==
    [ ii \in 1..Len(shape) |->
        IF shape[ii] < 0 THEN BadInner
        ELSE [ok |-> TRUE,
              files |-> SubSeq(flat, Count(shape, ii - 1) + 1, Count(shape, ii))] ]

\* pd.read_csv(...) followed by df["region"] = region: the rows of extract
\* `jj` of inner archive `ii`, each tagged with the region.
read_csv(ii, jj, region) ==
    [ k \in 1..archive[ii].files[jj].nrows |->
        [src |-> <<ii, jj>>, line |-> k, region |-> region] ]

\* dataframes.append(df)
append_overwrite(dfs, df) == <<df>>
append(dfs, df) == Append(dfs, df)

\* zipfile.ZipFile(data, "r") on a member of the outer archive succeeds
ZipOpens_lenient(inner) == TRUE
ZipOpens(inner) == inner.ok

\* __exit__ of `with zipfile.ZipFile(data, "r") as zf`
ExitInner_leak(handles, ii) == handles
ExitInner(handles, ii) == handles \ { <<"inner", ii>> }

\* __exit__ of `with zipfile.ZipFile(filename, "r") as master_zf`
ExitOuter(handles) == handles \ { <<"outer", 0>> }

RECURSIVE Concat(_)
\* rows of pd.concat(dfs, ignore_index=True) for a non-empty list
Concat(dfs) == IF dfs = <<>> THEN <<>> ELSE Head(dfs) \o Concat(Tail(dfs))

\* An outer archive that cannot be opened has no content to speak of.
LoadInit ==
    /\ outerOk \in BOOLEAN
    /\ IF outerOk
       THEN \E shape \in { sh \in Shapes : Count(sh, Len(sh)) <= MaxExtracts } :
              \E flat \in [1..Count(shape, Len(shape)) -> ExtractSet] :
                archive = Build(shape, flat)
       ELSE archive = <<>>
    /\ pc = "start"
    /\ i = 0
    /\ j = 0
    /\ open = {}
    /\ dataframes = <<>>
    /\ result = <<>>
    /\ err = ""

\* with zipfile.ZipFile(filename, "r") as master_zf: file_names = namelist()
OpenOuter ==
    /\ pc = "start"
    /\ IF outerOk
       THEN /\ open' = open \cup { <<"outer", 0>> }
            /\ pc' = "outer"
            /\ err' = err
       ELSE /\ pc' = "raised"
            /\ err' = "BadZipFile:outer"
            /\ open' = open
    /\ UNCHANGED <<outerOk, archive, i, j, dataframes, result>>

\* for file_name in file_names: data = ...; with zipfile.ZipFile(data) as zf
NextInner ==
    /\ pc = "outer"
    /\ i < Len(archive)
    /\ i' = i + 1
    /\ j' = 0
    /\ IF ZipOpens(archive[i + 1])
       THEN /\ open' = open \cup { <<"inner", i + 1>> }
            /\ pc' = "inner"
            /\ err' = err
       ELSE \* the exception leaves the outer with-block
            /\ open' = ExitOuter(open)
            /\ pc' = "raised"
            /\ err' = "BadZipFile:inner"
    /\ UNCHANGED <<outerOk, archive, dataframes, result>>

\* one iteration of `for csv_file_name in csv_file_names`
Extract ==
    /\ pc = "inner"
    /\ j < Len(archive[i].files)
    /\ j' = j + 1
    /\ LET e == archive[i].files[j + 1]
           region == RegionOf(e.name)
       IN  IF region = None
           THEN \* continue
                UNCHANGED <<pc, open, dataframes, err>>
           ELSE IF e.corrupt
           THEN \* the exception leaves both with-blocks
                /\ open' = ExitOuter(ExitInner(open, i))
                /\ pc' = "raised"
                /\ err' = "read"
                /\ UNCHANGED dataframes
           ELSE /\ dataframes' = append(dataframes, read_csv(i, j + 1, region))
                /\ UNCHANGED <<pc, open, err>>
    /\ UNCHANGED <<outerOk, archive, i, result>>

\* end of the inner with-block
CloseInner ==
    /\ pc = "inner"
    /\ j = Len(archive[i].files)
    /\ open' = ExitInner(open, i)
    /\ pc' = "outer"
    /\ UNCHANGED <<outerOk, archive, i, j, dataframes, result, err>>

\* end of the outer with-block
CloseOuter ==
    /\ pc = "outer"
    /\ i = Len(archive)
    /\ open' = ExitOuter(open)
    /\ pc' = "concat"
    /\ UNCHANGED <<outerOk, archive, i, j, dataframes, result, err>>

\* return pd.concat(dataframes, ignore_index=True);
\* pd.concat raises ValueError on an empty list
Return ==
    /\ pc = "concat"
    /\ IF dataframes = <<>>
       THEN /\ pc' = "raised"
            /\ err' = "ValueError:concat"
            /\ UNCHANGED result
       ELSE /\ pc' = "done"
            /\ result' = Concat(dataframes)
            /\ UNCHANGED err
    /\ UNCHANGED <<outerOk, archive, i, j, open, dataframes>>

\* ------------------------------------------------------------ parse_data
Digits == {"0", "1", "2", "3", "4", "5", "6", "7", "8", "9"}

DigitVal(c) ==
    CASE c = "0" -> 0 [] c = "1" -> 1 [] c = "2" -> 2 [] c = "3" -> 3 [] c = "4" -> 4
      [] c = "5" -> 5 [] c = "6" -> 6 [] c = "7" -> 7 [] c = "8" -> 8 [] c = "9" -> 9

\* A cell of a frame: text, a missing value (NaN/NaT), a number n * 10^(-e),
\* or a calendar date (n = 10000 * year + 100 * month + day).
Str(s) == [kind |-> "str", s |-> s, n |-> 0, e |-> 0]
NaN == [kind |-> "nan", s |-> <<>>, n |-> 0, e |-> 0]
Num(n, e) == [kind |-> "num", s |-> <<>>, n |-> n, e |-> e]
Date(y, m, d) == [kind |-> "date", s |-> <<>>, n |-> 10000 * y + 100 * m + d, e |-> 0]

\* the columns made numeric (analysis.py line 104)
NumCols == {"a", "b", "d", "e", "f", "g", "l", "n", "o"}

\* the order of `cols`
NumColSeq == <<"a", "b", "d", "e", "f", "g", "l", "n", "o">>

\* str.replace(",", ".") on one string
str_replace_none(s) == s
str_replace(s) == [ k \in 1..Len(s) |-> IF s[k] = "," THEN "." ELSE s[k] ]

RECURSIVE Normal(_, _)
\* the number n * 10^(-e) without trailing zeros of the fraction
Normal(n, e) == IF e > 0 /\ n % 10 = 0 THEN Normal(n \div 10, e - 1) ELSE <<n, e>>

RECURSIVE ScanNumeral(_, _, _, _, _, _)
\* The float parser behind pd.to_numeric on the text s from position k:
\* digits, at most one ".", digits; at least one digit; nothing else.
\* n: digits read so far as a number, e: digits read after the point.
ScanNumeral(s, k, n, e, dot, nd) ==
    IF k > Len(s) THEN [ok |-> nd > 0, n |-> n, e |-> e]
    ELSE IF s[k] \in Digits
         THEN ScanNumeral(s, k + 1, 10 * n + DigitVal(s[k]),
                          IF dot THEN e + 1 ELSE e, dot, nd + 1)
    ELSE IF s[k] = "." /\ ~dot THEN ScanNumeral(s, k + 1, n, e, TRUE, nd)
    ELSE [ok |-> FALSE, n |-> 0, e |-> 0]

\* pd.to_numeric(..., errors="coerce") on one cell of the column that
\* .str.replace returned: text parses to a number or becomes NaN; a cell that
\* held no text is NaN already (the .str accessor gives NaN for it).
ParseNumeral(s) ==
    LET neg == Len(s) > 0 /\ s[1] = "-"
        pos == Len(s) > 0 /\ s[1] = "+"
        r == ScanNumeral(s, IF neg \/ pos THEN 2 ELSE 1, 0, 0, FALSE, 0)
        v == Normal(r.n, r.e)
    IN  IF r.ok THEN Num(IF neg THEN 0 - v[1] ELSE v[1], v[2]) ELSE NaN

\* df[col].str.replace(",", ".") on one cell
StrReplaceCell(c) == IF c.kind = "str" THEN Str(str_replace(c.s)) ELSE NaN

\* pd.to_numeric(column, errors="coerce"): never raises
to_numeric_raise(cells) ==
    [ok |-> \A k \in 1..Len(cells) :
                cells[k].kind = "str" => ParseNumeral(cells[k].s).kind = "num",
     cells |-> [ k \in 1..Len(cells) |->
                  IF cells[k].kind = "str" THEN ParseNumeral(cells[k].s) ELSE NaN ]]
to_numeric(cells) ==
    [ok |-> TRUE,
     cells |-> [ k \in 1..Len(cells) |->
                  IF cells[k].kind = "str" THEN ParseNumeral(cells[k].s) ELSE NaN ]]

IsLeap(y) == (y % 4 = 0 /\ y % 100 # 0) \/ y % 400 = 0

DaysIn(y, m) ==
    IF m = 2 THEN (IF IsLeap(y) THEN 29 ELSE 28)
    ELSE IF m \in {4, 6, 9, 11} THEN 30 ELSE 31

RECURSIVE ReadDigits(_, _, _, _)
\* reads up to `max` digits of s from position k: <<value, next position>>
ReadDigits(s, k, max, acc) ==
    IF max > 0 /\ k <= Len(s) /\ s[k] \in Digits
    THEN ReadDigits(s, k + 1, max - 1, 10 * acc + DigitVal(s[k]))
    ELSE <<acc, k>>

\* Parsing one text with format "%Y-%m-%d": four digits of year, "-", one or
\* two digits of month, "-", one or two digits of day, nothing after; the
\* date must exist.
ParseDate(s) ==
    LET y == ReadDigits(s, 1, 4, 0)
        m == ReadDigits(s, y[2] + 1, 2, 0)
        d == ReadDigits(s, m[2] + 1, 2, 0)
        shape == /\ y[2] = 5
                 /\ Len(s) >= 5 /\ s[5] = "-"
                 /\ m[2] > 6
                 /\ Len(s) >= m[2] /\ s[m[2]] = "-"
                 /\ d[2] > m[2] + 1
                 /\ d[2] = Len(s) + 1
        valid == /\ m[1] \in 1..12
                 /\ d[1] >= 1
                 /\ d[1] <= DaysIn(y[1], m[1])
    IN  IF shape /\ valid THEN [ok |-> TRUE, cell |-> Date(y[1], m[1], d[1])]
        ELSE [ok |-> FALSE, cell |-> NaN]

\* pd.to_datetime(column, format="%Y-%m-%d") on one cell: text is parsed, a
\* date stays a date, a missing value stays missing
DateCell(c) ==
    IF c.kind = "str" THEN ParseDate(c.s) ELSE [ok |-> TRUE, cell |-> c]

\* pd.to_datetime(df["p2a"], format="%Y-%m-%d"): raises on the first text
\* that does not parse
to_datetime_coerce(cells) ==
    [ok |-> TRUE, cells |-> [ k \in 1..Len(cells) |-> DateCell(cells[k]).cell ]]
to_datetime(cells) ==
    [ok |-> \A k \in 1..Len(cells) : DateCell(cells[k]).ok,
     cells |-> [ k \in 1..Len(cells) |-> DateCell(cells[k]).cell ]]

\* the .str accessor exists only on a column of dtype object
HasStrAccessor(dtype) == dtype = "object"

RECURSIVE DropFrom(_, _)
\* rows whose p1 is not in `seen`, keeping the first row of every p1
DropFrom(rows, seen) ==
    IF rows = <<>> THEN <<>>
    ELSE IF Head(rows).p1 \in seen THEN DropFrom(Tail(rows), seen)
    ELSE <<Head(rows)>> \o DropFrom(Tail(rows), seen \cup {Head(rows).p1})

\* df.drop_duplicates(subset=["p1"]): keep="first", index labels kept
drop_duplicates_none(rows) == rows
drop_duplicates_last(rows) ==
    LET n == Len(rows)
        rev == [ k \in 1..n |-> rows[n + 1 - k] ]
        kept == DropFrom(rev, {})
    IN  [ k \in 1..Len(kept) |-> kept[Len(kept) + 1 - k] ]
drop_duplicates(rows) == DropFrom(rows, {})

Column(rows, col) == [ k \in 1..Len(rows) |-> rows[k].num[col] ]

SetColumn(rows, col, cells) ==
    [ k \in 1..Len(rows) |-> [rows[k] EXCEPT !.num[col] = cells[k]] ]

Failed(e) ==
    [ok |-> FALSE, err |-> e,
     df |-> [rows |-> <<>>, dtDate |-> "object", dtCat |-> "object",
             dtNum |-> [c \in NumCols |-> "object"]]]

RECURSIVE NumericLoop(_, _)
\* for col in cols: df[col] = pd.to_numeric(df[col].str.replace(",", "."),
\*                                           errors="coerce")
\* from the k-th column on; [ok, err, df]
NumericLoop(df, k) ==
    IF k > Len(NumColSeq) THEN [ok |-> TRUE, err |-> "", df |-> df]
    ELSE LET col == NumColSeq[k]
             column == Column(df.rows, col)
             replaced == [ r \in 1..Len(column) |-> StrReplaceCell(column[r]) ]
             parsed == to_numeric(replaced)
         IN  IF ~HasStrAccessor(df.dtNum[col]) THEN Failed("AttributeError")
             ELSE IF ~parsed.ok THEN Failed("ValueError:numeric")
             ELSE NumericLoop([df EXCEPT !.rows = SetColumn(df.rows, col, parsed.cells),
                                         !.dtNum[col] = "numeric"], k + 1)

\* parse_data(df): [ok, err, df]; ok = FALSE when the call raises
parse_data(df) ==
    LET dates == to_datetime([ k \in 1..Len(df.rows) |-> df.rows[k].p2a ])
        df1 == [df EXCEPT !.rows = [ k \in 1..Len(df.rows) |->
                                       [df.rows[k] EXCEPT !.p2a = dates.cells[k]] ],
                          !.dtDate = "datetime64"]
        df2 == [df1 EXCEPT !.dtCat = "category"]
        num == NumericLoop(df2, 1)
    IN  IF ~dates.ok THEN Failed("ValueError:date")
        ELSE IF ~num.ok THEN num
        ELSE [ok |-> TRUE, err |-> "",
              df |-> [num.df EXCEPT !.rows = drop_duplicates(num.df.rows)]]

\* accident ids used as inputs
Ids == {101, 102}

\* date texts used as inputs: "2022-03-15", "2022-3-5", "2022-02-30",
\* "15/03/2022"
DateTexts ==
    { <<"2","0","2","2","-","0","3","-","1","5">>,
      <<"2","0","2","2","-","3","-","5">>,
      <<"2","0","2","2","-","0","2","-","3","0">>,
      <<"1","5","/","0","3","/","2","0","2","2">> }

\* cells of a numeric column used as inputs: "12,5", "-0,50", "7", "N/A",
\* "1,2,5", and a cell that holds the float 3.0, not text
NumCells ==
    { Str(<<"1","2",",","5">>), Str(<<"-","0",",","5","0">>), Str(<<"7">>),
      Str(<<"N","/","A">>), Str(<<"1",",","2",",","5">>), Num(3, 0) }

\* The raw frame with the given ids, date texts and numeric cells; every
\* numeric column of a row holds the row's cell; index labels 0, 1, ...
RawFrame(ids, dates, cells, dtype) ==
    [rows |-> [ k \in 1..Len(ids) |->
                 [idx |-> k - 1, p1 |-> ids[k], p2a |-> Str(dates[k]),
                  num |-> [c \in NumCols |-> cells[k]]] ],
     dtDate |-> "object",
     dtCat |-> "object",
     dtNum |-> [c \in NumCols |-> dtype]]

\* A column with a text cell has dtype object; one without may be float64
\* (read_csv inferred numbers) or object (concatenated with an object column).
DtypesOf(cells) ==
    IF \E k \in 1..Len(cells) : cells[k].kind = "str" THEN {"object"}
    ELSE {"object", "float64"}

ParseInit ==
    /\ pdPc = "start"
    /\ \E len \in 0..MaxFrameRows :
         \E ids \in [1..len -> Ids], dates \in [1..len -> DateTexts],
            cells \in [1..len -> NumCells] :
           \E dtype \in DtypesOf(cells) :
             pdIn = RawFrame(ids, dates, cells, dtype)
    /\ pdOut = Failed("")
    /\ pdOut2 = Failed("")

\* df = parse_data(raw)
Normalize ==
    /\ pdPc = "start"
    /\ pdOut' = parse_data(pdIn)
    /\ pdPc' = "once"
    /\ UNCHANGED <<pdIn, pdOut2>>

\* parse_data(df) on the frame parse_data returned
NormalizeAgain ==
    /\ pdPc = "once"
    /\ pdOut.ok
    /\ pdOut2' = parse_data(pdOut.df)
    /\ pdPc' = "twice"
    /\ UNCHANGED <<pdIn, pdOut>>

\* ------------------------------------------------------------- integrate
\* Numbers are exact fractions <<numerator, denominator>> in lowest terms
\* with a positive denominator (rounding of floats is not modelled).
Abs(x) == IF x < 0 THEN 0 - x ELSE x

RECURSIVE Gcd(_, _)
Gcd(x, y) == IF y = 0 THEN x ELSE Gcd(y, x % y)

Frac(n, d) ==
    LET g == Gcd(Abs(n), Abs(d))
        sg == IF d < 0 THEN 0 - 1 ELSE 1
    IN  <<(sg * n) \div g, (sg * d) \div g>>

FAdd(x, y) == Frac(x[1] * y[2] + y[1] * x[2], x[2] * y[2])
FSub(x, y) == Frac(x[1] * y[2] - y[1] * x[2], x[2] * y[2])
FMul(x, y) == Frac(x[1] * y[1], x[2] * y[2])
FDivInt(x, k) == Frac(x[1], x[2] * k)

\* functions integrated: x |-> 1, x |-> x, x |-> x * x (elementwise on arrays)
Fns == {"one", "id", "sq"}

Apply(fn, x) ==
    CASE fn = "one" -> <<1, 1>>
      [] fn = "id" -> x
      [] fn = "sq" -> FMul(x, x)

\* np.linspace(lo, hi, num): num samples, both end points included
linspace(lo, hi, num) ==
    [ k \in 1..num |->
        IF num = 1 THEN Frac(lo, 1)
        ELSE FAdd(Frac(lo, 1), Frac((k - 1) * (hi - lo), num - 1)) ]

RECURSIVE SumSeq(_)
\* np.sum
SumSeq(xs) == IF xs = <<>> THEN <<0, 1>> ELSE FAdd(Head(xs), SumSeq(Tail(xs)))

\* integrate(f, a, b, steps) for steps > 0
integrate(fn, lo, hi, num) ==
    LET space == linspace(lo, hi, num)
        dx == Frac(hi - lo, num)
        values == [ k \in 1..num |-> Apply(fn, space[k]) ]
    IN  SumSeq([ k \in 1..num |-> FMul(values[k], dx) ])

IntInit ==
    /\ intPc = "start"
    /\ f \in Fns
    /\ a \in (0 - MaxAbs)..MaxAbs
    /\ b \in (0 - MaxAbs)..MaxAbs
    /\ steps \in 0..MaxSteps
    /\ intRes = <<0, 1>>

\* the call integrate(f, a, b, steps); (b - a) / steps raises
\* ZeroDivisionError when steps = 0
Integrate ==
    /\ intPc = "start"
    /\ IF steps = 0
       THEN /\ intPc' = "raised"
            /\ UNCHANGED intRes
       ELSE /\ intPc' = "done"
            /\ intRes' = integrate(f, a, b, steps)
    /\ UNCHANGED <<f, a, b, steps>>

ParseIdle ==
    /\ pdPc = "idle"
    /\ pdIn = Failed("").df
    /\ pdOut = Failed("")
    /\ pdOut2 = Failed("")

IntIdle ==
    /\ intPc = "idle"
    /\ f = "one"
    /\ a = 0
    /\ b = 0
    /\ steps = 0
    /\ intRes = <<0, 1>>

InitLoad == LoadInit /\ ParseIdle /\ IntIdle

NextLoad ==
    \/ OpenOuter /\ UNCHANGED <<parseVars, intVars>>
    \/ NextInner /\ UNCHANGED <<parseVars, intVars>>
    \/ Extract /\ UNCHANGED <<parseVars, intVars>>
    \/ CloseInner /\ UNCHANGED <<parseVars, intVars>>
    \/ CloseOuter /\ UNCHANGED <<parseVars, intVars>>
    \/ Return /\ UNCHANGED <<parseVars, intVars>>

SpecLoad == InitLoad /\ [][NextLoad]_vars

LoadIdle ==
    /\ outerOk = FALSE
    /\ archive = <<>>
    /\ pc = "idle"
    /\ i = 0
    /\ j = 0
    /\ open = {}
    /\ dataframes = <<>>
    /\ result = <<>>
    /\ err = ""

InitParse == ParseInit /\ LoadIdle /\ IntIdle

NextParse ==
    \/ Normalize /\ UNCHANGED <<loadVars, intVars>>
    \/ NormalizeAgain /\ UNCHANGED <<loadVars, intVars>>

SpecParse == InitParse /\ [][NextParse]_vars

InitInt == IntInit /\ LoadIdle /\ ParseIdle

NextInt == Integrate /\ UNCHANGED <<loadVars, parseVars>>

SpecInt == InitInt /\ [][NextInt]_vars

\* ------------------------------------------------- properties of load_data
Terminated == pc \in {"done", "raised"}

\* the extract a returned row was read from
SourceOf(r) == archive[r.src[1]].files[r.src[2]]

\* the name's first two characters are one of the 14 keys of the table
KnownPrefix(name) == Prefix(name, 2) \in regionKeys

\* the code the table maps the name's prefix to
CodeOf(name) == (CHOOSE e \in regions : e[1] = Prefix(name, 2))[2]

\* positions (inner archive, extract) of the outer archive
Positions ==
    { p \in (1..Len(archive)) \X (1..MaxExtracts) : p[2] <= Len(archive[p[1]].files) }

ExtractAt(p) == archive[p[1]].files[p[2]]

\* number of rows of the result equal to row `r`
Occurrences(r) == Cardinality({ n \in 1..Len(result) : result[n] = r })

\* C1: every record load_data returns comes from an extract whose 2-character
\* name prefix is a key of the region table; an extract with any other prefix
\* contributes no record.
C1_UnrecognizedExcluded ==
    pc = "done" =>
        /\ \A n \in 1..Len(result) : KnownPrefix(SourceOf(result[n]).name)
        /\ \A p \in Positions :
             ~KnownPrefix(ExtractAt(p).name) =>
                 \A n \in 1..Len(result) : result[n].src # p

\* C1 witness: load_data returned records although the archive holds a
\* non-empty extract with an unrecognized prefix.
C1_Witness ==
    /\ pc = "done"
    /\ Len(result) > 0
    /\ \E p \in Positions :
         ~KnownPrefix(ExtractAt(p).name) /\ ExtractAt(p).nrows > 0

\* C6: every returned record carries the region code the table maps its
\* extract's prefix to, and every recognized extract contributes each of its
\* rows exactly once, also when several extracts share a prefix.
C6_RegionTagged ==
    pc = "done" =>
        /\ \A n \in 1..Len(result) :
             result[n].region = CodeOf(SourceOf(result[n]).name)
        /\ \A p \in Positions :
             KnownPrefix(ExtractAt(p).name) =>
                 \A k \in 1..ExtractAt(p).nrows :
                     Occurrences([src |-> p, line |-> k,
                                  region |-> CodeOf(ExtractAt(p).name)]) = 1

\* C6 witness: two extracts prefixed "00", both non-empty, both with a row
\* tagged "PHA" in the result.
C6_Witness ==
    /\ pc = "done"
    /\ \E p, q \in Positions :
         /\ p # q
         /\ Prefix(ExtractAt(p).name, 2) = <<"0","0">>
         /\ Prefix(ExtractAt(q).name, 2) = <<"0","0">>
         /\ Occurrences([src |-> p, line |-> 1, region |-> "PHA"]) = 1
         /\ Occurrences([src |-> q, line |-> 1, region |-> "PHA"]) = 1

\* an inner archive is malformed, and nothing else can make the call fail:
\* no recognized extract is unreadable and some recognized extract exists
OnlyMalformedInner ==
    /\ outerOk
    /\ \E k \in 1..Len(archive) : ~archive[k].ok
    /\ \A p \in Positions : ~ExtractAt(p).corrupt
    /\ \E p \in Positions : KnownPrefix(ExtractAt(p).name)

\* C8 as stated: a malformed inner archive aborts only its own contribution;
\* the call returns the records of the recognized extracts of the others.
C8_Original ==
    (Terminated /\ OnlyMalformedInner) =>
        /\ pc = "done"
        /\ \A p \in Positions :
             KnownPrefix(ExtractAt(p).name) =>
                 \A k \in 1..ExtractAt(p).nrows :
                     Occurrences([src |-> p, line |-> k,
                                  region |-> CodeOf(ExtractAt(p).name)]) = 1

\* C8 amended: a malformed inner archive aborts the whole call. load_data
\* never gets past it, raises when it opens it, and returns no record of any
\* inner archive.
C8_MalformedAbortsAll ==
    \A k \in 1..Len(archive) :
        ~archive[k].ok =>
            /\ pc \notin {"done", "concat"}
            /\ result = <<>>
            /\ i <= k
            /\ i = k => (pc = "raised" /\ err = "BadZipFile:inner")

\* C8 witness: the call failed on a malformed inner archive after it had
\* already read records of a well-formed one.
C8_Witness ==
    /\ pc = "raised"
    /\ err = "BadZipFile:inner"
    /\ dataframes # <<>>
    /\ Len(dataframes[1]) > 0
    /\ result = <<>>

InnerHandles == { h \in open : h[1] = "inner" }

\* C9: at most one inner-archive handle is open at any time (the handle of an
\* inner archive is released before the next one is opened), and no handle is
\* open once load_data has left its with-blocks, by return or by exception.
C9_HandlesScoped ==
    /\ Cardinality(InnerHandles) <= 1
    /\ pc = "outer" => open = { <<"outer", 0>> }
    /\ pc = "inner" => open = { <<"outer", 0>>, <<"inner", i>> }
    /\ pc \in {"concat", "done", "raised"} => open = {}

\* C9 witness: an exception raised while reading an extract of the second
\* inner archive left load_data with every handle closed.
C9_Witness ==
    /\ pc = "raised"
    /\ err = "read"
    /\ i = 2
    /\ open = {}

\* ------------------------------------------------ properties of parse_data
Called == pdPc \in {"once", "twice"}

InRows == pdIn.rows
OutRows == pdOut.df.rows

IdsOf(rows) == { rows[k].p1 : k \in 1..Len(rows) }

RECURSIVE Val(_, _, _)
\* the number written by the digits s[lo..hi]
Val(s, lo, hi) == IF hi < lo THEN 0 ELSE 10 * Val(s, lo, hi - 1) + DigitVal(s[hi])

RECURSIVE Pow10(_)
Pow10(k) == IF k = 0 THEN 1 ELSE 10 * Pow10(k - 1)

SignLen(s) == IF Len(s) > 0 /\ s[1] = "-" THEN 1 ELSE 0

\* s is digits, a comma, digits, with an optional minus sign in front
IsCommaNumeral(s) ==
    \E k \in (SignLen(s) + 2)..(Len(s) - 1) :
        /\ s[k] = ","
        /\ \A q \in ((SignLen(s) + 1)..Len(s)) \ {k} : s[q] \in Digits

\* the cell c holds the number s denotes when its comma is read as a
\* decimal point: whole + fraction / 10^(digits of the fraction)
HoldsCommaValue(c, s) ==
    LET k == CHOOSE q \in 1..Len(s) : s[q] = ","
        fl == Len(s) - k
        mag == Val(s, SignLen(s) + 1, k - 1) * Pow10(fl) + Val(s, k + 1, Len(s))
        sgn == IF SignLen(s) = 1 THEN 0 - 1 ELSE 1
    IN  /\ c.kind = "num"
        /\ c.n * Pow10(fl) = sgn * mag * Pow10(c.e)

\* s is a numeral once every comma is read as a point: an optional sign,
\* then digits with at most one separator among them, at least one digit
IsNumeralAfterReplace(s) ==
    LET body == (SignLen(s) + 1)..Len(s)
    IN  /\ \A q \in body : s[q] \in Digits \cup {",", "."}
        /\ Cardinality({ q \in body : s[q] \in {",", "."} }) <= 1
        /\ \E q \in body : s[q] \in Digits

\* the day d of month m of year y exists
CalendarDate(y, m, d) ==
    /\ m \in 1..12
    /\ d >= 1
    /\ m \in {1, 3, 5, 7, 8, 10, 12} => d <= 31
    /\ m \in {4, 6, 9, 11} => d <= 30
    /\ m = 2 => d <= (IF y % 400 = 0 \/ (y % 4 = 0 /\ y % 100 # 0) THEN 29 ELSE 28)

\* s is written YYYY-MM-DD
IsIsoDate(s) ==
    /\ Len(s) = 10
    /\ s[5] = "-"
    /\ s[8] = "-"
    /\ \A q \in {1, 2, 3, 4, 6, 7, 9, 10} : s[q] \in Digits

\* s matches the format %Y-%m-%d (month and day of one or two digits) and
\* names an existing date
MatchesFormat(s) ==
    \E ml, dl \in {1, 2} :
        /\ Len(s) = 6 + ml + dl
        /\ s[5] = "-"
        /\ s[6 + ml] = "-"
        /\ \A q \in (1..Len(s)) \ {5, 6 + ml} : s[q] \in Digits
        /\ CalendarDate(Val(s, 1, 4), Val(s, 6, 5 + ml), Val(s, 7 + ml, Len(s)))

\* pairs (input row, output row) of the same record (same index label)
SameRecord == { p \in (1..Len(InRows)) \X (1..Len(OutRows)) :
                  InRows[p[1]].idx = OutRows[p[2]].idx }

\* C2: when parse_data succeeds, the accident ids of the output are exactly
\* the accident ids of the input, and every id labels exactly one output row.
C2_OneRecordPerId ==
    (Called /\ pdOut.ok) =>
        /\ IdsOf(OutRows) = IdsOf(InRows)
        /\ \A id \in IdsOf(InRows) :
             Cardinality({ k \in 1..Len(OutRows) : OutRows[k].p1 = id }) = 1

\* C2 witness: an input with the same id in two rows was normalized to one row.
C2_Witness ==
    /\ Called
    /\ pdOut.ok
    /\ Len(InRows) = 2
    /\ InRows[1].p1 = InRows[2].p1
    /\ Len(OutRows) = 1

\* C3: parse_data applied to its own output succeeds and returns as many rows.
C3_IdempotentRowCount ==
    pdPc = "twice" =>
        /\ pdOut2.ok
        /\ Len(pdOut2.df.rows) = Len(OutRows)

\* C4: a numeric-column cell whose text is a numeral with a decimal comma
\* holds, after parse_data, the number read with the comma as decimal point,
\* in the same record and column.
C4_DecimalComma ==
    (Called /\ pdOut.ok) =>
        \A p \in SameRecord : \A c \in NumCols :
            LET cell == InRows[p[1]].num[c]
            IN  (cell.kind = "str" /\ IsCommaNumeral(cell.s)) =>
                    /\ OutRows[p[2]].p1 = InRows[p[1]].p1
                    /\ HoldsCommaValue(OutRows[p[2]].num[c], cell.s)

\* C4 witness: "12,5" became 12.5 in columns a and o of its record.
C4_Witness ==
    /\ Called
    /\ pdOut.ok
    /\ \E p \in SameRecord :
         /\ InRows[p[1]].num["a"] = Str(<<"1","2",",","5">>)
         /\ OutRows[p[2]].num["a"] = Num(125, 1)
         /\ OutRows[p[2]].num["o"] = Num(125, 1)

C7_DateParsedOrFatal ==
    Called =>
        /\ pdOut.ok =>
             \A p \in SameRecord :
                 LET s == InRows[p[1]].p2a.s
                 IN  IsIsoDate(s) =>
                         OutRows[p[2]].p2a =
                             Date(Val(s, 1, 4), Val(s, 6, 7), Val(s, 9, 10))
        /\ (\E k \in 1..Len(InRows) : ~MatchesFormat(InRows[k].p2a.s)) =>
               /\ ~pdOut.ok
               /\ pdOut.err = "ValueError:date"
               /\ OutRows = <<>>

\* C7 witness: the call failed on "15/03/2022" in a row that repeats the id
\* of an earlier row with a well-formed date.
C7_Witness ==
    /\ pdPc = "once"
    /\ ~pdOut.ok
    /\ Len(InRows) = 2
    /\ InRows[1].p1 = InRows[2].p1
    /\ InRows[1].p2a = Str(<<"2","0","2","2","-","0","3","-","1","5">>)
    /\ InRows[2].p2a = Str(<<"1","5","/","0","3","/","2","0","2","2">>)

\* ------------------------------------------------- properties of integrate
\* the midpoint rectangle sum over `num` subintervals of width (hi - lo) / num:
\* sum of (x_k - x_(k-1)) * fn((x_(k-1) + x_k) / 2), x_k = lo + k * width
MidpointSum(fn, lo, hi, num) ==
    LET x(k) == FAdd(Frac(lo, 1), Frac(k * (hi - lo), num))
    IN  SumSeq([ k \in 1..num |->
                  FMul(FSub(x(k), x(k - 1)),
                       Apply(fn, FDivInt(FAdd(x(k - 1), x(k)), 2))) ])

\* C10: integrate returns the midpoint rectangle sum of f over [a, b] split
\* into `steps` subintervals of equal width.
C10_MidpointRule ==
    intPc = "done" => intRes = MidpointSum(f, a, b, steps)

\* C11: of the rows sharing an accident id, parse_data keeps the one that
\* comes first in the input, and the kept rows stay in their input order.
C11_FirstSeenKept ==
    (Called /\ pdOut.ok) =>
        /\ \A k \in 1..Len(OutRows) :
             LET o == OutRows[k]
             IN  /\ o.idx + 1 \in 1..Len(InRows)
                 /\ InRows[o.idx + 1].p1 = o.p1
                 /\ \A q \in 1..Len(InRows) : InRows[q].p1 = o.p1 => o.idx + 1 <= q
        /\ \A k, q \in 1..Len(OutRows) : k < q => OutRows[k].idx < OutRows[q].idx

\* C11 witness: of two rows with one id, holding "12,5" and "7", the first
\* (index label 0, value 12.5) is the row returned.
C11_Witness ==
    /\ Called
    /\ pdOut.ok
    /\ Len(InRows) = 2
    /\ InRows[1].p1 = InRows[2].p1
    /\ InRows[1].num["a"] = Str(<<"1","2",",","5">>)
    /\ InRows[2].num["a"] = Str(<<"7">>)
    /\ Len(OutRows) = 1
    /\ OutRows[1].idx = 0
    /\ OutRows[1].num["a"] = Num(125, 1)

\* the outer archive opens, every inner archive opens, some extract is there
\* to be skipped, and no extract has a recognized prefix
NothingRecognized ==
    /\ outerOk
    /\ \A k \in 1..Len(archive) : archive[k].ok
    /\ Positions # {}
    /\ \A p \in Positions : ~KnownPrefix(ExtractAt(p).name)

\* C12: when the outer archive opens and no extract has a recognized prefix,
\* load_data returns an empty collection and does not raise.
C12_SkipNeverError ==
    (Terminated /\ NothingRecognized) =>
        /\ pc = "done"
        /\ err = ""
        /\ result = <<>>

====
